---- MODULE Spec2Model ----
(***************************************************************************)
(* The three sweep drivers of the repository:                              *)
(*   merge_scan_linear.py  weight sweep                                    *)
(*   merge_scan_ties.py    lambda x density sweep                          *)
(*   model_soup.py         one uniform merge of all matching revisions     *)
(*                                                                         *)
(* Numbers.  Every float of the program is held as an integer count of     *)
(* micro-units (1e-6), so 0.3 is 300000 and the tolerance 1e-6 is 1.       *)
(* round(x, 3) is rounding to a multiple of 1000, round(x, 2) to a         *)
(* multiple of 10000, with Python's rule for exact ties (to the even       *)
(* multiple).  A binary float that prints as a decimal tie (0.0025) is not *)
(* an exact tie; the input sets below hold no such value.                  *)
(***************************************************************************)
EXTENDS Integers, Sequences, FiniteSets, TLC

\* ----------------------------------------------------------------- numbers

One == 1000000      \* 1.0
Tol == 1            \* 1e-6
Milli == 1000       \* resolution of round(x, 3)
Centi == 10000      \* resolution of round(x, 2)
None == -999999999  \* Python's None (argparse default=None)

MaxLen == 5         \* longest generated list the model follows
MaxAxis == 3        \* longest per-axis density range the model follows

\* floor(a / q) for q > 0, also for negative a
FloorDiv(a, q) == a \div q

\* ceil(a / q) for q > 0, also for negative a
CeilDiv(a, q) == -FloorDiv(-a, q)

\* Python round(): nearest multiple of q, an exact tie goes to the even one
RoundTo(x, q) ==
    LET f == FloorDiv(x, q)
        r == x - f * q
    IN  IF 2 * r < q THEN f * q
        ELSE IF 2 * r > q THEN (f + 1) * q
        ELSE IF f % 2 = 0 THEN f * q ELSE (f + 1) * q

Round3(x) == RoundTo(x, Milli)
Round2(x) == RoundTo(x, Centi)


\* step/2 of the ties generators; every step of the input sets is even
Half(step) == step \div 2

\* numpy.arange(start, stop, step): ceil((stop - start) / step) values
\* start + k*step, none when that length is not positive.  step = 0 raises.
NpArangeLen(start, stop, step) ==
    LET n == IF step > 0 THEN CeilDiv(stop - start, step)
                         ELSE CeilDiv(start - stop, -step)
    IN  IF n > 0 THEN n ELSE 0

NpArange(start, stop, step) ==
    [k \in 1..NpArangeLen(start, stop, step) |-> start + (k - 1) * step]

\* ------------------------------------------------------------------- state

VARIABLES
    driver,         \* which script runs: "linear", "ties" or "soup"
    args,           \* the parsed command line
    pc,             \* position of the script
    heap,           \* the nested dicts of the loaded recipe, by object id
    loaded,         \* the values yaml.safe_load returned (never written again)
    original_yaml,  \* top-level dict of the base recipe: key -> object id
    modified_yaml,  \* top-level dict of this iteration's copy
    current,        \* linear: loop variable of the weight generator
    weights,        \* linear: generated weights
    lambda_values,  \* ties: generated lambdas
    axis,           \* ties: the outer np.arange of the density loop
    d1, d2,         \* ties: indices of the nested density loops
    density_pairs,  \* ties: generated density pairs
    i, j,           \* sweep loop indices (outer; inner for ties)
    pos,            \* number of sweep iterations that wrote their recipe
    fs,             \* existing output directories: path -> the runs of the
                    \* merge tool whose files they hold
    yamlLog,        \* recipe files written, in order
    mergeLog,       \* merge invocations, in order
    running,        \* external processes started and not yet exited
    mergeExit,      \* exit status of this iteration's merge (None: not run)
    pushExit,       \* exit status of this iteration's upload (None: not run)
    lastPush,       \* position of the latest upload invocation, 0 if none
    failures,       \* number of iterations whose merge or upload failed
    firstFail,      \* position of the first such iteration, 0 if none
    report,         \* what this iteration printed: "none", "success", "error"
    crash,          \* the statement that raised out of main, "" if none
    branches,       \* soup: refs.branches as the hub returns them
    revisions       \* soup: matching revisions

recipeVars == <<heap, loaded, original_yaml, modified_yaml>>
genVars == <<current, weights, lambda_values, axis, d1, d2, density_pairs>>
loopVars == <<i, j, pos>>
iterVars == <<mergeExit, pushExit, report>>
logVars == <<yamlLog, mergeLog, running, lastPush, failures, firstFail>>
soupVars == <<branches, revisions>>
vars == <<driver, args, pc, recipeVars, genVars, loopVars, iterVars, logVars,
          fs, crash, soupVars>>

\* ------------------------------------------------------------------ recipe

\* The recipe as yaml.safe_load builds it: a top-level dict whose "models"
\* list and "parameters" dict are objects of their own.  The heap holds the
\* leaf dicts: "p" is recipe["parameters"], "m0" and "m1" are
\* recipe["models"][k]["parameters"].
BaseRecipe ==
    [p  |-> [lambda |-> 900000],
     m0 |-> [weight |-> 600000, density |-> 500000],
     m1 |-> [weight |-> 400000, density |-> 500000]]

TopLevel == [models |-> <<"m0", "m1">>, parameters |-> "p"]

\* a key the loaded recipe does not have
Absent == "absent"

\* The recipes yaml.safe_load may return for the file named on the command
\* line: the well-formed one, one with a single model entry, one whose second
\* model has no "parameters", one without top-level "parameters".
BaseRecipes ==
    { [heap |-> BaseRecipe, top |-> TopLevel],
      [heap |-> [k \in {"p", "m0"} |-> BaseRecipe[k]],
       top |-> [models |-> <<"m0">>, parameters |-> "p"]],
      [heap |-> [k \in {"p", "m0"} |-> BaseRecipe[k]],
       top |-> [models |-> <<"m0", Absent>>, parameters |-> "p"]],
      [heap |-> [k \in {"m0", "m1"} |-> BaseRecipe[k]],
       top |-> [models |-> <<"m0", "m1">>, parameters |-> Absent]] }

\* yaml_content["models"][k - 1]["parameters"] can be reached
HasModelParameters(yaml_content, k) ==
    k \in DOMAIN yaml_content.models /\ yaml_content.models[k] # Absent

\* IndexError or KeyError in update_weights and update_densities
ModelsRaise(yaml_content) ==
    ~ (HasModelParameters(yaml_content, 1) /\ HasModelParameters(yaml_content, 2))

\* KeyError in update_lambda
LambdaRaises(yaml_content) == yaml_content.parameters = Absent

\* dict.copy(): a new top-level dict holding the same references
ShallowCopy(top) == [k \in DOMAIN top |-> top[k]]

\* update_weights writing the first weight into both models
update_weights_same(h, yaml_content, w1, w2) ==
    IF ~ HasModelParameters(yaml_content, 1) THEN h
    ELSE LET h1 == [h EXCEPT ![yaml_content.models[1]].weight = w1]
         IN  IF ~ HasModelParameters(yaml_content, 2) THEN h1
             ELSE [h1 EXCEPT ![yaml_content.models[2]].weight = w1]

\* update_weights: the heap it leaves, the assignments made before a raise
\* included
update_weights(h, yaml_content, w1, w2) ==
    IF ~ HasModelParameters(yaml_content, 1) THEN h
    ELSE LET h1 == [h EXCEPT ![yaml_content.models[1]].weight = w1]
         IN  IF ~ HasModelParameters(yaml_content, 2) THEN h1
             ELSE [h1 EXCEPT ![yaml_content.models[2]].weight = w2]

\* update_lambda
update_lambda(h, yaml_content, new_lambda) ==
    IF LambdaRaises(yaml_content) THEN h
    ELSE [h EXCEPT ![yaml_content.parameters].lambda = new_lambda]

\* update_densities writing the density of the first model only
update_densities_first(h, yaml_content, density_1, density_2) ==
    IF ~ HasModelParameters(yaml_content, 1) THEN h
    ELSE [h EXCEPT ![yaml_content.models[1]].density = density_1]

\* update_densities: the heap it leaves, the assignments made before a raise
\* included
update_densities(h, yaml_content, density_1, density_2) ==
    IF ~ HasModelParameters(yaml_content, 1) THEN h
    ELSE LET h1 == [h EXCEPT ![yaml_content.models[1]].density = density_1]
         IN  IF ~ HasModelParameters(yaml_content, 2) THEN h1
             ELSE [h1 EXCEPT ![yaml_content.models[2]].density = density_2]

\* yaml.dump: the text written holds the values reached through the
\* references at the time of the call; a key the recipe lacks stays absent
Dump(h, top) ==
    [models |-> [k \in DOMAIN top.models |->
                   IF top.models[k] = Absent THEN Absent
                   ELSE h[top.models[k]]],
     parameters |-> IF top.parameters = Absent THEN Absent
                    ELSE h[top.parameters]]

\* ---------------------------------------------------------- command lines

LinearArgs(S, E, T) ==
    {[weight_start |-> s, weight_end |-> e, step_size |-> t] :
        s \in S, e \in E, t \in T}

TiesArgs(LS, LE, LT, DS, DE, DT) ==
    {[lambda_start |-> ls, lambda_end |-> le, lambda_step |-> lt,
      density_start |-> ds, density_end |-> de, density_step |-> dt] :
        ls \in LS, le \in LE, lt \in LT, ds \in DS, de \in DE, dt \in DT}

\* The command lines of the sweep runs followed end to end.  No range of
\* these sets has its stop a whole number of steps from its start, where the
\* rounding of the float quotient would decide the length of np.arange.
SweepLinear ==
    LinearArgs({300000, 700000, 1600, 1200000},
               {300000, 700000, 4000, 1400000},
               {200000, 600, 0, -200000})

SweepTies ==
    TiesArgs({1000000}, {None, 1008000, 900000}, {10000, 4000, 0},
             {200000}, {None, 300000}, {100000, 0})

\* The command lines of the generator runs (no sweep after them)
GenLinear ==
    LinearArgs({0, 300000, 700000, 1600, 10000, 1200000},
               {0, 300000, 700000, 4000, 10000, 1400000},
               {200000, 100000, 1400, 400, 600, 0, -200000})

GenTies ==
    TiesArgs({1000000, 500000, 1004000}, {None, 1000000, 1020000, 500000},
             {10000, 4000, 0, -10000, 500000},
             {200000, 300000}, {None, 200000, 300000, 208000},
             {100000, 4000, 0, -100000})

\* Output directories a previous run of the same command may have left
OutputBase == "output_dir"

PriorDirs(d) ==
    IF d = "linear"
    THEN {<<OutputBase, w, Round3(One - w)>> : w \in {300000, 2000, 700000}}
    ELSE {<<OutputBase>>}

Prior == [by |-> 0, ok |-> TRUE]

\* refs.branches of the soup runs: <<revision label, step>>, step None for a
\* branch that is no checkpoint of a revision
BranchLists ==
    { <<>>,
      << <<"main", None>> >>,
      << <<"v03.00", 20>>, <<"main", None>>, <<"v03.00", 10>> >>,
      << <<"v03.00", 30>>, <<"v02.00", 10>>, <<"v03.00", 5>>, <<"v03.00", 10>> >>,
      << <<"v03x00", 7>>, <<"v03.00", 12>>, <<"dev-v03.00", 3>> >>,
      << <<"v02.00", 10>>, <<"v03.00", None>> >> }

\* -------------------------------------------------------------- file system

EmptyFs == [d \in {} |-> {Prior}]

\* Rmtree leaving the directory in place
RmtreeKeeps(f, dir) == f

\* shutil.rmtree(dir): the directory and all it holds are gone
Rmtree(f, dir) == [d \in DOMAIN f \ {dir} |-> f[d]]

\* the merge tool creating its output directory, or writing into the one
\* that is there: what the directory held before stays in it
WriteDir(f, dir, origin) ==
    [d \in DOMAIN f \cup {dir} |->
        IF d # dir THEN f[d]
        ELSE IF dir \in DOMAIN f THEN f[dir] \cup {origin} ELSE {origin}]

\* ------------------------------------------------------------------- start

InitCommon ==
    /\ heap = <<>> /\ loaded = <<>>
    /\ original_yaml = <<>> /\ modified_yaml = <<>>
    /\ current = None /\ weights = <<>>
    /\ lambda_values = <<>> /\ axis = <<>> /\ d1 = 1 /\ d2 = 1
    /\ density_pairs = <<>>
    /\ i = 1 /\ j = 1 /\ pos = 0
    /\ yamlLog = <<>> /\ mergeLog = <<>> /\ running = {} /\ lastPush = 0
    /\ failures = 0 /\ firstFail = 0
    /\ mergeExit = None /\ pushExit = None /\ report = "none"
    /\ crash = ""
    /\ revisions = <<>>

PriorFs(d) == [x \in PriorDirs(d) |-> {Prior}]

InitWith(linearArgs, tiesArgs, soup) ==
    /\ InitCommon
    /\ \/ driver = "linear" /\ args \in linearArgs /\ branches = <<>>
       \/ driver = "ties" /\ args \in tiesArgs /\ branches = <<>>
       \/ /\ soup
          /\ driver = "soup"
          /\ args = [model_id |-> "org/model", revision |-> "v03.00"]
          /\ branches \in BranchLists
    /\ pc = IF driver = "soup" THEN "refs" ELSE "load"
    /\ fs \in {EmptyFs, PriorFs(driver)}

Init == InitWith(SweepLinear, SweepTies, TRUE)

InitGen == InitWith(GenLinear, GenTies, FALSE)

\* an exception leaves main: the process ends with a traceback
Raise(what) == pc' = "crashed" /\ crash' = what

\* ----------------------------------------------- merge_scan_linear: generator

LinearLoad ==
    /\ driver = "linear" /\ pc = "load"
    /\ \/ /\ \E recipe \in BaseRecipes :
                /\ heap' = recipe.heap /\ loaded' = recipe.heap
                /\ original_yaml' = recipe.top
          /\ current' = args.weight_start
          /\ weights' = <<>>
          /\ pc' = "weights"
          /\ UNCHANGED crash
       \/ /\ Raise("load_yaml")
          /\ UNCHANGED <<heap, loaded, original_yaml, current, weights>>
    /\ UNCHANGED <<driver, args, modified_yaml, lambda_values, axis, d1, d2,
                   density_pairs, loopVars, iterVars, logVars, fs, soupVars>>

\* the condition of the while loop
WeightCond ==
    IF args.weight_start <= args.weight_end
    THEN current <= args.weight_end + Tol
    ELSE current >= args.weight_end - Tol

\* the value the loop assigns to current after appending
NextCurrent ==
    Round3(IF args.weight_start < args.weight_end
           THEN current + args.step_size
           ELSE current - args.step_size)

WeightAppend ==
    /\ driver = "linear" /\ pc = "weights"
    /\ WeightCond
    /\ Len(weights) < MaxLen
    /\ weights' = Append(weights, Round3(current))
    /\ IF args.weight_start = args.weight_end
       THEN pc' = "iter" /\ current' = current
       ELSE pc' = pc /\ current' = NextCurrent
    /\ UNCHANGED <<driver, args, recipeVars, lambda_values, axis, d1, d2,
                   density_pairs, loopVars, iterVars, logVars, fs, crash,
                   soupVars>>

WeightExit ==
    /\ driver = "linear" /\ pc = "weights"
    /\ ~WeightCond
    /\ pc' = "iter"
    /\ UNCHANGED <<driver, args, recipeVars, genVars, loopVars, iterVars,
                   logVars, fs, crash, soupVars>>

\* ------------------------------------------------- merge_scan_ties: generator

TiesLoad ==
    /\ driver = "ties" /\ pc = "load"
    /\ \/ /\ \E recipe \in BaseRecipes :
                /\ heap' = recipe.heap /\ loaded' = recipe.heap
                /\ original_yaml' = recipe.top
          /\ pc' = "lambda"
          /\ UNCHANGED crash
       \/ /\ Raise("load_yaml")
          /\ UNCHANGED <<heap, loaded, original_yaml>>
    /\ UNCHANGED <<driver, args, modified_yaml, genVars, loopVars, iterVars,
                   logVars, fs, soupVars>>

\* [round(x, 2) for x in np.arange(start, end + step/2, step)]
LambdaRange ==
    LET a == NpArange(args.lambda_start,
                      args.lambda_end + Half(args.lambda_step),
                      args.lambda_step)
    IN  [k \in DOMAIN a |-> Round2(a[k])]

TiesLambda ==
    /\ driver = "ties" /\ pc = "lambda"
    /\ IF args.lambda_end = None
       THEN /\ lambda_values' = <<args.lambda_start>>
            /\ pc' = "density" /\ UNCHANGED crash
       ELSE IF args.lambda_step = 0
       THEN Raise("np.arange lambda") /\ UNCHANGED lambda_values
       ELSE /\ Len(LambdaRange) <= MaxLen
            /\ lambda_values' = LambdaRange
            /\ pc' = "density" /\ UNCHANGED crash
    /\ UNCHANGED <<driver, args, recipeVars, current, weights, axis, d1, d2,
                   density_pairs, loopVars, iterVars, logVars, fs, soupVars>>

\* np.arange(start, end, step) of the density loops, end = density_end + step/2
DensityRange ==
    NpArange(args.density_start,
             args.density_end + Half(args.density_step),
             args.density_step)

TiesDensity ==
    /\ driver = "ties" /\ pc = "density"
    /\ IF args.density_start = None \/ args.density_end = None
       THEN /\ density_pairs' = << <<None, None>> >>
            /\ pc' = "iter"
            /\ UNCHANGED <<axis, d1, d2, crash>>
       ELSE IF args.density_step = 0
       THEN Raise("np.arange density")
            /\ UNCHANGED <<axis, d1, d2, density_pairs>>
       ELSE /\ Len(DensityRange) <= MaxAxis
            /\ density_pairs' = <<>>
            /\ axis' = DensityRange
            /\ d1' = 1 /\ d2' = 1
            /\ pc' = "pairs" /\ UNCHANGED crash
    /\ UNCHANGED <<driver, args, recipeVars, current, weights, lambda_values,
                   loopVars, iterVars, logVars, fs, soupVars>>

\* TiesPairAppend with the two loop variables taken in the wrong order
TiesPairAppendSwapped ==
    /\ driver = "ties" /\ pc = "pairs"
    /\ d1 <= Len(axis) /\ d2 <= Len(DensityRange)
    /\ density_pairs' =
         Append(density_pairs, <<Round2(DensityRange[d2]), Round2(axis[d1])>>)
    /\ IF d2 < Len(DensityRange)
       THEN d2' = d2 + 1 /\ d1' = d1
       ELSE d2' = 1 /\ d1' = d1 + 1
    /\ UNCHANGED <<driver, args, pc, recipeVars, current, weights,
                   lambda_values, axis, loopVars, iterVars, logVars, fs, crash,
                   soupVars>>

\* one pass of the inner loop body, then the loop heads
TiesPairAppend ==
    /\ driver = "ties" /\ pc = "pairs"
    /\ d1 <= Len(axis) /\ d2 <= Len(DensityRange)
    /\ density_pairs' =
         Append(density_pairs, <<Round2(axis[d1]), Round2(DensityRange[d2])>>)
    /\ IF d2 < Len(DensityRange)
       THEN d2' = d2 + 1 /\ d1' = d1
       ELSE d2' = 1 /\ d1' = d1 + 1
    /\ UNCHANGED <<driver, args, pc, recipeVars, current, weights,
                   lambda_values, axis, loopVars, iterVars, logVars, fs, crash,
                   soupVars>>

TiesPairExit ==
    /\ driver = "ties" /\ pc = "pairs"
    /\ d1 > Len(axis)
    /\ pc' = "iter"
    /\ UNCHANGED <<driver, args, recipeVars, genVars, loopVars, iterVars,
                   logVars, fs, crash, soupVars>>

\* ------------------------------------------------- the steps of an iteration

\* if os.path.exists(dir): shutil.rmtree(dir)
\* rmtree either removes the tree or raises (it is called without
\* ignore_errors and outside the try block)
CleanStep(dir) ==
    /\ pc = "clean"
    /\ \/ dir \notin DOMAIN fs /\ fs' = fs /\ pc' = "merge" /\ UNCHANGED crash
       \/ dir \in DOMAIN fs /\ fs' = Rmtree(fs, dir) /\ pc' = "merge"
            /\ UNCHANGED crash
       \/ dir \in DOMAIN fs /\ fs' = fs /\ Raise("rmtree")
    /\ UNCHANGED <<driver, args, recipeVars, genVars, loopVars, iterVars,
                   logVars, soupVars>>

\* the bookkeeping of an iteration that ended in the except clause
Failed(exit) ==
    /\ failures' = IF exit = 0 THEN failures ELSE failures + 1
    /\ firstFail' = IF exit # 0 /\ firstFail = 0 THEN pos ELSE firstFail

\* subprocess.run started the command
Started(procs, p) == procs \cup {p}

\* Exited for a subprocess.run that returns while the command still runs
ExitedNot(procs, p) == procs

\* subprocess.run returns or raises only when the command has exited
Exited(procs, p) == procs \ {p}

\* run_merge entered: subprocess.run starts mergekit-yaml on the recipe
MergeStart(yaml, dir) ==
    /\ pc = "merge"
    /\ mergeLog' = Append(mergeLog, [pos |-> pos, yaml |-> yaml, dir |-> dir,
                                     existed |-> dir \in DOMAIN fs])
    /\ running' = Started(running, <<"merge", pos>>)
    /\ pc' = "merging"
    /\ UNCHANGED <<driver, args, recipeVars, genVars, loopVars, iterVars,
                   yamlLog, lastPush, failures, firstFail, fs, crash,
                   soupVars>>

\* MergeStep with the failure of the merge tool leaving the loop
MergeStepAborts(dir, after) ==
    /\ pc = "merging"
    /\ running' = Exited(running, <<"merge", pos>>)
    /\ \E exit \in {0, 1}, wrote \in BOOLEAN :
         /\ exit = 0 => wrote
         /\ fs' = IF wrote
                  THEN WriteDir(fs, dir, [by |-> pos, ok |-> exit = 0])
                  ELSE fs
         /\ mergeExit' = exit
         /\ Failed(exit)
         /\ IF exit = 0
            THEN pc' = "push" /\ report' = report
            ELSE pc' = "done" /\ report' = "error"
    /\ UNCHANGED <<driver, args, recipeVars, genVars, loopVars, pushExit,
                   yamlLog, mergeLog, lastPush, crash, soupVars>>

\* MergeStep going on to the upload whatever the exit status of the merge
MergeStepUnchecked(dir, after) ==
    /\ pc = "merging"
    /\ running' = Exited(running, <<"merge", pos>>)
    /\ \E exit \in {0, 1}, wrote \in BOOLEAN :
         /\ exit = 0 => wrote
         /\ fs' = IF wrote
                  THEN WriteDir(fs, dir, [by |-> pos, ok |-> exit = 0])
                  ELSE fs
         /\ mergeExit' = exit
         /\ Failed(exit)
         /\ pc' = "push" /\ report' = report
    /\ UNCHANGED <<driver, args, recipeVars, genVars, loopVars, pushExit,
                   yamlLog, mergeLog, lastPush, crash, soupVars>>

\* run_merge inside the try block: subprocess.run(cmd, check=True) waits for
\* the command, returns on exit status 0 and raises otherwise; the except
\* clause prints and goes on.  A merge that exits 0 has written its output
\* directory, a failed one may have left a partial one.
MergeStep(dir, after) ==
    /\ pc = "merging"
    /\ running' = Exited(running, <<"merge", pos>>)
    /\ \E exit \in {0, 1}, wrote \in BOOLEAN :
         /\ exit = 0 => wrote
         /\ fs' = IF wrote
                  THEN WriteDir(fs, dir, [by |-> pos, ok |-> exit = 0])
                  ELSE fs
         /\ mergeExit' = exit
         /\ Failed(exit)
         /\ IF exit = 0
            THEN pc' = "push" /\ report' = report
            ELSE pc' = after /\ report' = "error"
    /\ UNCHANGED <<driver, args, recipeVars, genVars, loopVars, pushExit,
                   yamlLog, mergeLog, lastPush, crash, soupVars>>

\* run_push_to_hub entered: subprocess.run starts the upload of dir
PushStart(dir) ==
    /\ pc = "push"
    /\ lastPush' = pos
    /\ running' = Started(running, <<"push", pos>>)
    /\ pc' = "pushing"
    /\ UNCHANGED <<driver, args, recipeVars, genVars, loopVars, iterVars,
                   yamlLog, mergeLog, failures, firstFail, fs, crash,
                   soupVars>>

\* the upload exits, subprocess.run returns or raises, then the print of the
\* outcome
PushStep(dir, after) ==
    /\ pc = "pushing"
    /\ running' = Exited(running, <<"push", pos>>)
    /\ \E exit \in {0, 1} :
         /\ pushExit' = exit
         /\ report' = IF exit = 0 THEN "success" ELSE "error"
         /\ Failed(exit)
    /\ pc' = after
    /\ UNCHANGED <<driver, args, recipeVars, genVars, loopVars, mergeExit,
                   yamlLog, mergeLog, lastPush, fs, crash, soupVars>>

\* ---------------------------------------------------- merge_scan_linear: sweep

weight_1 == weights[i]
weight_2 == Round3(One - weight_1)

\* f"{args.output_dir}_{weight_1}_{weight_2}"
current_output_dir == <<OutputBase, weight_1, weight_2>>

\* f"{YAML_DIR}/weights_{weight_1}_{weight_2}.yml"
LinearYamlPath == <<"scratch/tmp_yamls/linear/weights", weight_1, weight_2>>

\* loop head, the mutation of the copy and save_yaml
LinearIter ==
    /\ driver = "linear" /\ pc = "iter"
    /\ i <= Len(weights)
    /\ heap' = update_weights(heap, ShallowCopy(original_yaml), weight_1,
                              weight_2)
    /\ IF ModelsRaise(original_yaml)
       THEN /\ Raise("update_weights")
            /\ UNCHANGED <<modified_yaml, pos, yamlLog, iterVars>>
       ELSE /\ pos' = pos + 1
            /\ modified_yaml' = ShallowCopy(original_yaml)
            /\ yamlLog' = Append(yamlLog,
                             [pos |-> pos', path |-> LinearYamlPath,
                              dir |-> current_output_dir,
                              content |-> Dump(heap', modified_yaml')])
            /\ mergeExit' = None /\ pushExit' = None /\ report' = "none"
            /\ pc' = "clean"
            /\ UNCHANGED crash
    /\ UNCHANGED <<driver, args, loaded, original_yaml, genVars, i, j,
                   mergeLog, running, lastPush, failures, firstFail, fs,
                   soupVars>>

LinearClean == driver = "linear" /\ CleanStep(current_output_dir)

LinearMerge ==
    driver = "linear" /\ MergeStart(LinearYamlPath, current_output_dir)

LinearMergeExit == driver = "linear" /\ MergeStep(current_output_dir, "sleep")

LinearPush == driver = "linear" /\ PushStart(current_output_dir)

LinearPushExit == driver = "linear" /\ PushStep(current_output_dir, "sleep")

\* time.sleep(2), then the next weight
LinearSleep ==
    /\ driver = "linear" /\ pc = "sleep"
    /\ i' = i + 1
    /\ pc' = "iter"
    /\ UNCHANGED <<driver, args, recipeVars, genVars, j, pos, iterVars,
                   logVars, fs, crash, soupVars>>

LinearEnd ==
    /\ driver = "linear" /\ pc = "iter"
    /\ i > Len(weights)
    /\ pc' = "done"
    /\ UNCHANGED <<driver, args, recipeVars, genVars, loopVars, iterVars,
                   logVars, fs, crash, soupVars>>

\* ------------------------------------------------------ merge_scan_ties: sweep

lmda == lambda_values[i]
density_pair == density_pairs[j]
density_1 == density_pair[1]
density_2 == density_pair[2]

\* TiesYamlPath without the density part of the name
TiesYamlPathLambdaOnly ==
    <<"scratch/temp_yamls_ties/v00.00_v01.00_lambda", lmda>>

\* f"scratch/temp_yamls_ties/v00.00_v01.00_{lambda_str}{density_str}.yml"
TiesYamlPath ==
    IF density_1 = None
    THEN <<"scratch/temp_yamls_ties/v00.00_v01.00_lambda", lmda>>
    ELSE <<"scratch/temp_yamls_ties/v00.00_v01.00_lambda", lmda,
           "density", density_1, density_2>>

\* args.output_dir
TiesOutputDir == <<OutputBase>>

\* loop heads, the mutation of the copy and save_yaml
TiesIter ==
    /\ driver = "ties" /\ pc = "iter"
    /\ i <= Len(lambda_values) /\ j <= Len(density_pairs)
    /\ LET copy == ShallowCopy(original_yaml)
           h1 == update_lambda(heap, copy, lmda)
       IN  heap' = IF ~ LambdaRaises(copy) /\ density_1 # None
                   THEN update_densities(h1, copy, density_1, density_2)
                   ELSE h1
    /\ IF LambdaRaises(original_yaml)
       THEN /\ Raise("update_lambda")
            /\ UNCHANGED <<modified_yaml, pos, yamlLog, iterVars>>
       ELSE IF density_1 # None /\ ModelsRaise(original_yaml)
       THEN /\ Raise("update_densities")
            /\ modified_yaml' = ShallowCopy(original_yaml)
            /\ UNCHANGED <<pos, yamlLog, iterVars>>
       ELSE /\ pos' = pos + 1
            /\ modified_yaml' = ShallowCopy(original_yaml)
            /\ yamlLog' = Append(yamlLog,
                             [pos |-> pos', path |-> TiesYamlPath,
                              dir |-> TiesOutputDir,
                              content |-> Dump(heap', modified_yaml')])
            /\ mergeExit' = None /\ pushExit' = None /\ report' = "none"
            /\ pc' = "clean"
            /\ UNCHANGED crash
    /\ UNCHANGED <<driver, args, loaded, original_yaml, genVars, i, j,
                   mergeLog, running, lastPush, failures, firstFail, fs,
                   soupVars>>

\* TiesClean looking for a directory named after the combination, where the
\* merge tool writes to args.output_dir
TiesCleanPerCombination ==
    driver = "ties" /\ CleanStep(<<OutputBase, lmda, density_1, density_2>>)

TiesClean == driver = "ties" /\ CleanStep(TiesOutputDir)

TiesMerge == driver = "ties" /\ MergeStart(TiesYamlPath, TiesOutputDir)

TiesMergeExit == driver = "ties" /\ MergeStep(TiesOutputDir, "sleep")

TiesPush == driver = "ties" /\ PushStart(TiesOutputDir)

TiesPushExit == driver = "ties" /\ PushStep(TiesOutputDir, "sleep")

\* time.sleep(2), then the next density pair, or the next lambda
TiesSleep ==
    /\ driver = "ties" /\ pc = "sleep"
    /\ IF j < Len(density_pairs)
       THEN j' = j + 1 /\ i' = i
       ELSE j' = 1 /\ i' = i + 1
    /\ pc' = "iter"
    /\ UNCHANGED <<driver, args, recipeVars, genVars, pos, iterVars, logVars,
                   fs, crash, soupVars>>

TiesEnd ==
    /\ driver = "ties" /\ pc = "iter"
    /\ i > Len(lambda_values) \/ j > Len(density_pairs)
    /\ pc' = "done"
    /\ UNCHANGED <<driver, args, recipeVars, genVars, loopVars, iterVars,
                   logVars, fs, crash, soupVars>>

\* ------------------------------------------------------------------ model_soup

\* The labels L for which the pattern f"{revision_pattern}-step-\d+$" is
\* found in f"{L}-step-{n}": the search is not anchored at its start and the
\* "." of the revision stands for any character.
Hits(revision_pattern) ==
    IF revision_pattern = "v03.00"
    THEN {"v03.00", "dev-v03.00", "v03x00"}
    ELSE {revision_pattern}

\* pattern.search(ref.name) for f"{revision_pattern}-step-\d+$"
Matches(ref) == ref[1] \in Hits(args.revision) /\ ref[2] # None

RECURSIVE Matching(_)
Matching(refs) ==
    IF refs = <<>> THEN <<>>
    ELSE IF Matches(Head(refs))
         THEN <<Head(refs)>> \o Matching(Tail(refs))
         ELSE Matching(Tail(refs))

\* SortByStep leaving the branches in the order of the hub
SortNot(refs) == refs

\* list.sort(key = step number): stable, ascending
RECURSIVE InsertByStep(_, _)
InsertByStep(ref, sorted) ==
    IF sorted = <<>> THEN <<ref>>
    ELSE IF Head(sorted)[2] <= ref[2]
         THEN <<Head(sorted)>> \o InsertByStep(ref, Tail(sorted))
         ELSE <<ref>> \o sorted

RECURSIVE SortByStep(_)
SortByStep(refs) ==
    IF refs = <<>> THEN <<>>
    ELSE InsertByStep(refs[Len(refs)], SortByStep(SubSeq(refs, 1, Len(refs) - 1)))

\* get_model_revisions and the early return of main
SoupRefs ==
    /\ driver = "soup" /\ pc = "refs"
    /\ \/ revisions' = SortByStep(Matching(branches))
       \/ revisions' = <<>>          \* list_repo_refs raised: caught, []
    /\ pc' = IF revisions' = <<>> THEN "done" ELSE "recipe"
    /\ UNCHANGED <<driver, args, recipeVars, genVars, loopVars, iterVars,
                   logVars, fs, crash, branches>>

\* f"scratch/temp_yamls/{model}_{args.revision}_soup.yml"
recipe_path == <<"scratch/temp_yamls", args.model_id, args.revision, "soup">>

SoupOutputDir == <<OutputBase>>

\* create_merge_recipe
SoupRecipe ==
    /\ driver = "soup" /\ pc = "recipe"
    /\ IF Len(revisions) = 0
       THEN Raise("ZeroDivisionError") /\ UNCHANGED <<pos, yamlLog>>
       ELSE /\ pos' = 1
            /\ LET weight == One \div Len(revisions)
                   models == [k \in DOMAIN revisions |->
                                [model |-> <<args.model_id, revisions[k]>>,
                                 weight |-> weight]]
               IN  yamlLog' = Append(yamlLog,
                                [pos |-> 1, path |-> recipe_path,
                                 dir |-> SoupOutputDir,
                                 content |-> [models |-> models,
                                              merge_method |-> "linear"]])
            /\ pc' = "clean" /\ UNCHANGED crash
    /\ UNCHANGED <<driver, args, recipeVars, genVars, i, j, iterVars, mergeLog,
                   running, lastPush, failures, firstFail, fs, soupVars>>

SoupClean == driver = "soup" /\ CleanStep(SoupOutputDir)

SoupMerge == driver = "soup" /\ MergeStart(recipe_path, SoupOutputDir)

SoupMergeExit == driver = "soup" /\ MergeStep(SoupOutputDir, "done")

SoupPush == driver = "soup" /\ PushStart(SoupOutputDir)

SoupPushExit == driver = "soup" /\ PushStep(SoupOutputDir, "done")

\* ------------------------------------------------------------ specifications

Generate ==
    \/ LinearLoad \/ WeightAppend \/ WeightExit
    \/ TiesLoad \/ TiesLambda \/ TiesDensity \/ TiesPairAppend \/ TiesPairExit

Sweep ==
    \/ LinearIter \/ LinearClean \/ LinearMerge \/ LinearMergeExit
    \/ LinearPush \/ LinearPushExit \/ LinearSleep \/ LinearEnd
    \/ TiesIter \/ TiesClean \/ TiesMerge \/ TiesMergeExit
    \/ TiesPush \/ TiesPushExit \/ TiesSleep \/ TiesEnd

Soup ==
    \/ SoupRefs \/ SoupRecipe \/ SoupClean \/ SoupMerge \/ SoupMergeExit
    \/ SoupPush \/ SoupPushExit

Next == Generate \/ Sweep \/ Soup

\* the whole runs of the three drivers
Spec == Init /\ [][Next]_vars

\* the generators alone, over a wider set of command lines
SpecGen == InitGen /\ [][Generate]_vars

\* ---------------------------------------------------------------- the claims

\* the combination sequence the generators hand to the sweep loop
Combos ==
    IF driver = "linear" THEN [k \in DOMAIN weights |-> <<weights[k]>>]
    ELSE IF driver = "ties" /\ density_pairs # <<>>
    THEN LET m == Len(density_pairs)
         IN  [k \in 1..(Len(lambda_values) * m) |->
                <<lambda_values[((k - 1) \div m) + 1],
                  density_pairs[((k - 1) % m) + 1]>>]
    ELSE <<>>

\* the combination a written recipe carries
Carried(entry) ==
    IF driver = "linear" THEN <<entry.content.models[1].weight>>
    ELSE <<entry.content.parameters.lambda,
           IF args.density_start = None \/ args.density_end = None
           THEN <<None, None>>
           ELSE <<entry.content.models[1].density,
                  entry.content.models[2].density>> >>

\* number of merge invocations so far, from the position of the script
MergesExpected ==
    IF pc \in {"clean", "merge"} \/ (pc = "crashed" /\ crash = "rmtree")
    THEN pos - 1
    ELSE pos

\* C1: in the linear and the ties sweep, under every pattern of merge and
\* upload exits, the k-th merge invocation is that of position k, on the
\* recipe written for combination k; no position is merged twice or skipped;
\* a run that ends normally has merged every position; and no run is cut
\* short by a failed merge or upload.
C1_EveryPositionMergedOnce ==
    driver \in {"linear", "ties"} =>
      /\ \A k \in DOMAIN mergeLog :
           /\ mergeLog[k].pos = k
           /\ k \in DOMAIN yamlLog
           /\ mergeLog[k].yaml = yamlLog[k].path
           /\ k \in DOMAIN Combos
           /\ Carried(yamlLog[k]) = Combos[k]
      /\ Len(yamlLog) = pos
      /\ Len(mergeLog) = MergesExpected
      /\ pc = "done" => Len(mergeLog) = Len(Combos)
      /\ pc = "crashed" =>
           crash \in {"load_yaml", "np.arange lambda", "np.arange density",
                      "update_weights", "update_lambda", "update_densities",
                      "rmtree"}

\* C1 witness: a linear sweep of three positions whose second iteration
\* failed, ended normally with the third position merged and uploaded
C1_Witness ==
    /\ driver = "linear" /\ pc = "done"
    /\ Len(mergeLog) = 3
    /\ firstFail = 2 /\ failures = 1
    /\ lastPush = 3 /\ pushExit = 0

\* C2: the base recipe loaded at start keeps its loaded values in every
\* nested field (both model weights, lambda, both densities) through every
\* sweep iteration.
C2_BaseRecipeNeverMutated ==
    original_yaml # <<>> =>
      Dump(heap, original_yaml) = Dump(loaded, original_yaml)

\* the k-th value of the ideal sweep, k = 0, 1, 2, ... (sign +1 ascending,
\* -1 descending)
Ideal3(k, sign) == Round3(args.weight_start + sign * k * args.step_size)

\* a count of steps that passes the end of the range
StepsPast ==
    LET gap == IF args.weight_start <= args.weight_end
               THEN args.weight_end - args.weight_start
               ELSE args.weight_start - args.weight_end
    IN  (gap \div args.step_size) + 2

\* C3: in the weight sweep with start <= end and a positive step, the k-th
\* generated weight (k = 0, 1, ...) is round(start + k*step, 3), the first
\* is round(start, 3), and the last is the largest such value that is
\* <= end + 1e-6.
C3_AscendingWeights ==
    (/\ driver = "linear" /\ pc \in {"weights", "iter"}
     /\ args.weight_start <= args.weight_end /\ args.step_size > 0) =>
      /\ \A k \in DOMAIN weights : weights[k] = Ideal3(k - 1, 1)
      /\ pc = "iter" =>
           /\ weights # <<>>
           /\ weights[Len(weights)] <= args.weight_end + Tol
           /\ \A k \in 0..StepsPast :
                Ideal3(k, 1) <= args.weight_end + Tol
                  => Ideal3(k, 1) <= weights[Len(weights)]

\* every swept start and step is a whole multiple of the rounding resolution
WeightOnGrid ==
    args.weight_start % Milli = 0 /\ args.step_size % Milli = 0

LambdaOnGrid ==
    args.lambda_end # None =>
      args.lambda_start % Centi = 0 /\ args.lambda_step % Centi = 0

DensityOnGrid ==
    (args.density_start # None /\ args.density_end # None) =>
      args.density_start % Centi = 0 /\ args.density_step % Centi = 0

OnGrid ==
    IF driver = "linear" THEN WeightOnGrid ELSE LambdaOnGrid /\ DensityOnGrid

\* C4 as stated: within one sweep run no two positions are given the same
\* temporary recipe path, and no two the same output directory path, in the
\* linear and in the ties sweep.
C4_PathsNeverCollide ==
    driver \in {"linear", "ties"} =>
      \A a, b \in DOMAIN yamlLog :
        a < b => /\ yamlLog[a].path # yamlLog[b].path
                 /\ yamlLog[a].dir # yamlLog[b].dir

\* C4 amended: two positions share a temporary recipe path only if they
\* carry the same combination values, and so do two positions of the linear
\* sweep that share an output directory; all positions of a ties sweep are
\* given the one output directory; and the positions of a sweep whose starts
\* and steps are whole multiples of the rounding resolution carry pairwise
\* different values.
C4_PathsFollowValues ==
    driver \in {"linear", "ties"} =>
      \A a, b \in DOMAIN yamlLog :
        a < b =>
          /\ yamlLog[a].path = yamlLog[b].path => Combos[a] = Combos[b]
          /\ driver = "linear" =>
               (yamlLog[a].dir = yamlLog[b].dir => Combos[a] = Combos[b])
          /\ driver = "ties" => yamlLog[a].dir = yamlLog[b].dir
          /\ OnGrid => Combos[a] # Combos[b]

\* C4 witness: a ties sweep over lambdas and density pairs, on the grid, has
\* written four recipes under four different paths for one output directory
C4_Witness ==
    /\ driver = "ties" /\ OnGrid
    /\ args.lambda_end # None /\ args.density_end # None
    /\ Len(yamlLog) >= 4
    /\ \A a, b \in DOMAIN yamlLog :
         a < b => /\ yamlLog[a].path # yamlLog[b].path
                  /\ yamlLog[a].dir = yamlLog[b].dir

\* C5: in every driver the target output directory does not exist at the
\* moment the merge tool is invoked, whatever a previous run or an earlier
\* iteration left there.
C5_MergeStartsWithoutOutputDir ==
    /\ \A k \in DOMAIN mergeLog : ~mergeLog[k].existed
    /\ pc = "merge" => yamlLog[Len(yamlLog)].dir \notin DOMAIN fs

\* C5 witness: the second iteration of a ties sweep is about to invoke the
\* merge tool; the first merge exited 0 (its upload was invoked), so it had
\* left the shared output directory, which is gone now
C5_Witness ==
    /\ driver = "ties" /\ pc = "merge" /\ pos = 2
    /\ lastPush = 1
    /\ TiesOutputDir \notin DOMAIN fs

\* a ties run that scans densities with a positive step has its pairs built
DensityScanDone ==
    /\ driver = "ties" /\ pc = "iter"
    /\ args.density_start # None /\ args.density_end # None
    /\ args.density_step > 0

\* the per-axis density sequence, each value rounded to 2 decimals
DensityAxis == [k \in DOMAIN DensityRange |-> Round2(DensityRange[k])]

\* density_pairs is the cross-product of DensityAxis with itself, the first
\* axis as the outer loop
IsCrossProduct ==
    LET n == Len(DensityAxis)
    IN  /\ Len(density_pairs) = n * n
        /\ \A a, b \in 1..n :
             density_pairs[(a - 1) * n + b] = <<DensityAxis[a], DensityAxis[b]>>

\* C6 as stated: for every start, end and positive step the density list is
\* the cross-product of the per-axis sequence with itself, in loop order,
\* no pair omitted and no pair occurring twice.
C6_DensityCrossProduct ==
    DensityScanDone =>
      /\ IsCrossProduct
      /\ \A x, y \in DOMAIN density_pairs :
           x < y => density_pairs[x] # density_pairs[y]

\* C6 amended: the density list is the cross-product in loop order for every
\* start, end and positive step, and no pair occurs twice when density start
\* and density step are whole multiples of 0.01.
C6_DensityCrossProductOnGrid ==
    DensityScanDone =>
      /\ IsCrossProduct
      /\ DensityOnGrid =>
           \A x, y \in DOMAIN density_pairs :
             x < y => density_pairs[x] # density_pairs[y]

\* C6 witness: densities 0.2 to 0.3 by 0.1 gave the four pairs
C6_Witness ==
    /\ DensityScanDone /\ DensityOnGrid
    /\ density_pairs = << <<200000, 200000>>, <<200000, 300000>>,
                          <<300000, 200000>>, <<300000, 300000>> >>

\* C7: when start equals end every range generator (weight, lambda,
\* density) yields exactly the one value start and completes without error,
\* for every step, zero and negative steps included.
C7_SingleValueWhenStartEqualsEnd ==
    /\ (driver = "linear" /\ args.weight_start = args.weight_end) =>
         /\ pc = "iter" => weights = <<args.weight_start>>
         /\ pc = "crashed" => crash = "load_yaml"
    /\ (driver = "ties" /\ args.lambda_start = args.lambda_end) =>
         /\ pc \in {"density", "pairs", "iter"} =>
              lambda_values = <<args.lambda_start>>
         /\ crash # "np.arange lambda"
    /\ (driver = "ties" /\ args.density_start = args.density_end) =>
         /\ pc = "iter" =>
              density_pairs = << <<args.density_start, args.density_start>> >>
         /\ crash # "np.arange density"

\* C8: every recipe the linear sweep writes holds the generated weight_1 in
\* models[0], round(1.0 - weight_1, 3) in models[1], and the two sum to 1.0,
\* also for a weight_1 outside [0, 1].
C8_WeightsSumToOne ==
    driver = "linear" =>
      \A k \in DOMAIN yamlLog :
        LET w1 == yamlLog[k].content.models[1].weight
            w2 == yamlLog[k].content.models[2].weight
        IN  /\ w1 = weights[k]
            /\ w2 = Round3(One - w1)
            /\ w1 + w2 = One

\* C8 witness: a recipe was written with weight_1 = 1.2 and weight_2 = -0.2
C8_Witness ==
    /\ driver = "linear"
    /\ \E k \in DOMAIN yamlLog :
         /\ yamlLog[k].content.models[1].weight = 1200000
         /\ yamlLog[k].content.models[2].weight = -200000

\* C9: in the weight sweep with start > end and a positive step, the k-th
\* generated weight (k = 0, 1, ...) is round(start - k*step, 3), the first is
\* round(start, 3), and the last is the smallest such value that is
\* >= end - 1e-6.
C9_DescendingWeights ==
    (/\ driver = "linear" /\ pc \in {"weights", "iter"}
     /\ args.weight_start > args.weight_end /\ args.step_size > 0) =>
      /\ \A k \in DOMAIN weights : weights[k] = Ideal3(k - 1, -1)
      /\ pc = "iter" =>
           /\ weights # <<>>
           /\ weights[Len(weights)] >= args.weight_end - Tol
           /\ \A k \in 0..StepsPast :
                Ideal3(k, -1) >= args.weight_end - Tol
                  => Ideal3(k, -1) >= weights[Len(weights)]

\* seq runs from start toward end inclusive by step > 0, each value rounded
\* to 2 decimals: up when start <= end, down otherwise, as far as it can go
\* without passing end by half a step or more
RunsTowardEnd(seq, start, end, step) ==
    LET n == Len(seq)
        sign == IF start <= end THEN 1 ELSE -1
        gap == sign * (end - start)
    IN  /\ seq # <<>>
        /\ \A k \in DOMAIN seq : seq[k] = Round2(start + sign * (k - 1) * step)
        /\ 2 * (n - 1) * step < 2 * gap + step
        /\ 2 * n * step >= 2 * gap + step
        /\ gap % step = 0 => seq[n] = Round2(end)

\* C10: in the ties sweep, with an end value given and a positive step, the
\* lambda sequence (resp. the per-axis density sequence) is non-empty, starts
\* at start and runs toward end inclusive, ascending when start <= end and
\* descending when start > end, stopping before it passes end by more than
\* half a step.
C10_TiesRangesReachEnd ==
    driver = "ties" =>
      /\ (/\ args.lambda_end # None /\ args.lambda_step > 0
          /\ pc \in {"density", "pairs", "iter"}) =>
           RunsTowardEnd(lambda_values, args.lambda_start, args.lambda_end,
                         args.lambda_step)
      /\ (/\ args.density_start # None /\ args.density_end # None
          /\ args.density_step > 0
          /\ pc \in {"pairs", "iter"}) =>
           RunsTowardEnd([k \in DOMAIN axis |-> Round2(axis[k])],
                         args.density_start, args.density_end,
                         args.density_step)

\* the recipe as loaded, read through the top-level dict
LoadedRecipe == Dump(loaded, original_yaml)

\* the recipe the k-th iteration has to write: the loaded one with the
\* fields its sweep targets set from combination k
TargetedOverwrite(k) ==
    IF driver = "linear"
    THEN [LoadedRecipe EXCEPT
            !.models[1].weight = Combos[k][1],
            !.models[2].weight = Round3(One - Combos[k][1])]
    ELSE IF Combos[k][2] = <<None, None>>
    THEN [LoadedRecipe EXCEPT !.parameters.lambda = Combos[k][1]]
    ELSE [LoadedRecipe EXCEPT
            !.parameters.lambda = Combos[k][1],
            !.models[1].density = Combos[k][2][1],
            !.models[2].density = Combos[k][2][2]]

\* C11: every recipe a linear or ties sweep writes is the base recipe as it
\* was loaded with exactly the targeted fields (both weights; lambda and,
\* when a density scan is requested, both densities) set from the
\* combination of its own iteration; every other field, the densities of a
\* ties sweep without density scan included, holds the loaded value.
C11_RecipeIsBaseWithTargetedFields ==
    driver \in {"linear", "ties"} =>
      \A k \in DOMAIN yamlLog :
        /\ k \in DOMAIN Combos
        /\ yamlLog[k].content = TargetedOverwrite(k)

\* C11 witness: a ties sweep with a density scan has written its third
\* recipe, whose densities differ from those of the two before it and from
\* the loaded ones, onto a base recipe earlier iterations wrote into
C11_Witness ==
    /\ driver = "ties" /\ pc = "clean"
    /\ Len(yamlLog) = 3
    /\ Combos[3][2] \notin {Combos[1][2], Combos[2][2]}
    /\ yamlLog[3].content.models[1].density # loaded.m0.density
    /\ yamlLog[3].content.models # yamlLog[2].content.models

\* the base recipe lacks the shape the sweeps expect: fewer than two model
\* entries, a model entry without "parameters", or (for the lambda of the
\* ties sweep) no top-level "parameters"
LacksShape ==
    \/ Len(original_yaml.models) < 2
    \/ \E k \in DOMAIN original_yaml.models : original_yaml.models[k] = Absent
    \/ driver = "ties" /\ original_yaml.parameters = Absent

\* C12: a linear or ties run on a base recipe that lacks the expected shape
\* writes no recipe file and invokes neither merge nor upload, and when its
\* combination sequence is not empty it does not end normally.
C12_MalformedRecipeAborts ==
    (driver \in {"linear", "ties"} /\ original_yaml # <<>> /\ LacksShape) =>
      /\ yamlLog = <<>> /\ mergeLog = <<>> /\ lastPush = 0
      /\ pc = "done" => Combos = <<>>

\* C13: a failure to remove the stale output directory of an iteration does
\* not end the run: it is handled like a failed merge, and the driver goes on
\* with the next combination.
C13_RmtreeFailureKeepsRunning ==
    driver \in {"linear", "ties"} => ~ (pc = "crashed" /\ crash = "rmtree")

\* C14: once the sweep has written the recipe of a combination, whatever
\* fails for individual combinations afterwards, the run does not end with
\* an uncaught error (the crashes of the generators and of the mutators,
\* which happen before the first recipe is written, are set aside here).
C14_NoAbnormalTermination ==
    pos >= 1 => pc # "crashed"

\* the try block of the iteration of position pos has been left
IterationOver ==
    pos >= 1 /\ pc \in {"sleep", "iter", "done"}

\* C15: within one iteration the upload is invoked only after the recipe was
\* written and the merge of that iteration returned exit status 0, and at
\* most once; an iteration whose merge failed invokes no upload and is
\* reported as an error; an iteration that is over has invoked the upload
\* exactly when its merge exited 0; and an iteration is reported successful
\* only if merge and upload both exited 0.
C15_UploadIffMergeSucceeded ==
    /\ pc \in {"push", "pushing"} =>
         /\ mergeExit = 0
         /\ pushExit = None
         /\ Len(yamlLog) = pos /\ Len(mergeLog) = pos /\ pos >= 1
    /\ pc = "push" => lastPush < pos
    /\ pushExit # None => mergeExit = 0 /\ lastPush = pos
    /\ (pos >= 1 /\ lastPush = pos) => mergeExit = 0
    /\ mergeExit \notin {None, 0} =>
         lastPush < pos /\ pushExit = None /\ report = "error"
    /\ IterationOver => (mergeExit = 0 <=> pushExit # None)
    /\ report = "success" => mergeExit = 0 /\ pushExit = 0

\* C15 witness: a sweep whose first iteration failed in the merge (no upload
\* was invoked for it) has merged, uploaded and reported its second one
C15_Witness ==
    /\ driver = "linear" /\ pc = "sleep" /\ pos = 2
    /\ firstFail = 1 /\ failures = 1
    /\ lastPush = 2
    /\ mergeExit = 0 /\ pushExit = 0 /\ report = "success"
    /\ \E d \in DOMAIN fs : \E o \in fs[d] : o.by = 1 /\ ~ o.ok

\* C16: for a non-zero step the weight loop ends: every pass that stays in
\* the loop moves current strictly toward weight_end (upward when
\* weight_start < weight_end, downward otherwise), so that the loop
\* condition fails after finitely many passes.
C16_WeightLoopAdvances ==
    [][(driver = "linear" /\ pc = "weights" /\ pc' = "weights"
          /\ args.step_size # 0)
       => IF args.weight_start < args.weight_end
          THEN current' > current
          ELSE current' < current]_vars

\* C17: at most one external process runs at any time, and one runs only
\* while the driver waits in subprocess.run for it; a running process
\* belongs to the iteration whose recipe was written last, so that every
\* call of an iteration has returned before the next recipe is written; and
\* uploads are invoked in the order of the combinations (each for the
\* current position, later than that of the upload before it).
C17_StrictlySequential ==
    /\ [](/\ Cardinality(running) <= 1
          /\ running # {} <=> pc \in {"merging", "pushing"}
          /\ pc = "merging" => running = {<<"merge", pos>>}
          /\ pc = "pushing" => running = {<<"push", pos>>}
          /\ \A p \in running : p[2] = Len(yamlLog))
    /\ [][/\ yamlLog' # yamlLog => running = {}
          /\ lastPush' # lastPush => lastPush' > lastPush /\ lastPush' = pos]_vars

\* C17 witness: the upload of the second iteration of a ties sweep is the
\* only process running, the upload of the first iteration having returned
C17_Witness ==
    /\ driver = "ties" /\ pc = "pushing" /\ pos = 2
    /\ running = {<<"push", 2>>}
    /\ lastPush = 2
    /\ Len(mergeLog) = 2 /\ failures = 0

\* C18: whenever the upload is invoked or running, the output directory
\* handed to it holds the files of one run of the merge tool only, that of
\* the same iteration, which exited 0; the directory was absent when that
\* merge started.  This covers the ties sweep and the soup, where every
\* iteration uses the same directory.
C18_UploadsOwnMergeOutput ==
    pc \in {"push", "pushing"} =>
      LET dir == yamlLog[pos].dir
      IN  /\ mergeLog[pos].dir = dir
          /\ ~ mergeLog[pos].existed
          /\ mergeExit = 0
          /\ dir \in DOMAIN fs
          /\ fs[dir] = {[by |-> pos, ok |-> TRUE]}

\* C18 witness: the third iteration of a ties sweep invokes its upload on
\* the shared directory, which the first iteration filled and uploaded and
\* the second iteration, which failed, used after it
C18_Witness ==
    /\ driver = "ties" /\ pc = "push" /\ pos = 3
    /\ firstFail = 2 /\ lastPush = 1
    /\ fs[TiesOutputDir] = {[by |-> 3, ok |-> TRUE]}

\* the models of the recipe the soup wrote
SoupModels == yamlLog[1].content.models

\* C19: a soup run that finds no matching branch, or whose fetch of the refs
\* fails, ends at once: it writes no recipe, never changes the output
\* directory and invokes neither merge nor upload.  create_merge_recipe is
\* therefore reached with a non-empty list only (no division by zero), and
\* the recipe it writes lists every matching branch once, in ascending
\* numeric step order, each with the weight 1/n.
C19_SoupNeedsRevisions ==
    /\ [](driver = "soup" =>
            /\ (pc # "refs" /\ Matching(branches) = <<>>) => revisions = <<>>
            /\ (pc # "refs" /\ revisions = <<>>) =>
                 /\ pc = "done" /\ pos = 0
                 /\ yamlLog = <<>> /\ mergeLog = <<>> /\ lastPush = 0
                 /\ running = {}
            /\ pc = "recipe" => revisions # <<>>
            /\ crash # "ZeroDivisionError"
            /\ yamlLog # <<>> =>
                 /\ Len(yamlLog) = 1
                 /\ Len(SoupModels) = Len(Matching(branches))
                 /\ Len(SoupModels) >= 1
                 /\ \A k \in DOMAIN SoupModels :
                      /\ SoupModels[k].model[1] = args.model_id
                      /\ \E n \in DOMAIN branches :
                           SoupModels[k].model[2] = branches[n]
                      /\ Matches(SoupModels[k].model[2])
                      /\ SoupModels[k].weight = One \div Len(SoupModels)
                 /\ \A a, b \in DOMAIN SoupModels :
                      a < b => /\ SoupModels[a].model[2][2] <= SoupModels[b].model[2][2]
                               /\ SoupModels[a].model[2] # SoupModels[b].model[2])
    /\ [][(driver = "soup" /\ revisions' = <<>>) => fs' = fs]_vars

\* C19 witness: the soup wrote the recipe of three matching branches the hub
\* listed out of step order, among branches that do not match
C19_Witness ==
    /\ driver = "soup" /\ pc = "clean"
    /\ Len(branches) = 4 /\ Len(SoupModels) = 3
    /\ branches[1][2] > branches[3][2]
    /\ SoupModels[1].model[2] = branches[3]
    /\ SoupModels[3].model[2] = branches[1]
    /\ SoupModels[1].weight = 333333

====
